---- MODULE Spec2Model ----
(***************************************************************************)
(* The job orchestration layer of the gamdl web front end (web_app.py):    *)
(* the three process-wide maps active_downloads, download_results and      *)
(* download_progress, the POST /download handler that allocates a job,     *)
(* the background task run_gamdl_command that runs the external tool and   *)
(* scans its output, and the external process itself as the environment.   *)
(*                                                                         *)
(* Python passes lists and dicts by reference.  Two references matter:     *)
(* line 537 stores the task's local list output_lines in the progress      *)
(* record, so a later append (line 528) is an append to the list the       *)
(* progress record holds; line 550 stores the progress record itself in    *)
(* the result, so a later write to the progress record (line 556) is a     *)
(* write to what the result holds.  The model keeps a copy at each holder  *)
(* and updates every holder of an object when the object is written.       *)
(***************************************************************************)
EXTENDS Integers, Sequences, FiniteSets, TLC

\* ---------------------------------------------------------------- bounds

\* Lines the external process writes in a short run and in a long run.
ShortRun == 2
LongRun == 102
\* Lines of a run whose text is drawn freely.
FreeRun == 2
\* Lines the pipe holds between the process and the task's readline.
PipeCap == 1
\* The wall clock advances in steps of ClockStep seconds up to MaxClock.
ClockStep == 600
MaxClock == 1200

\* The longest track list the API returns and the longest batch of URLs.
MaxTracks == 17

MaxBatch == 2

\* ------------------------------------------------------ program constants
\* tracks[:15] and len(tracks) > 15
PreviewTracks == 15


\* web_app.py:503  timeout_seconds = 600
timeout_seconds == 600
\* web_app.py:534  if len(output_lines) > 100: output_lines = output_lines[-100:]
KeepLines == 100

\* The identifiers uuid.uuid4() may return (line 628).
Ids == {"id1", "id2"}

\* Exit codes of the external tool; process.terminate() ends it with -15.
ExitCodes == {0, 1}
SIGTERM == 0 - 15
NoCode == 0 - 1000

VARIABLES
    pool,               \* ids uuid4 can still return in this run
    maxLines,           \* lines the external process may write in this run
    freeText,           \* whether the process's lines are drawn freely
    active_downloads,   \* line 41: id -> details of a running job
    download_results,   \* line 42: id -> result of a finished job
    download_progress,  \* line 43: id -> progress record
    options,            \* the options dict download() hands to the task
    pc,                 \* position of each job's background task
    cmd,                \* the task's local cmd list ("unset" before line 432)
    proc,               \* the external process: none, running, closed, exited
    returncode,         \* process.returncode
    emitted,            \* lines the process has written so far
    pipe,               \* lines written and not yet read
    line,               \* the task's local line
    output_lines,       \* the task's local list output_lines
    aliased,            \* progress['output_lines'] is the local list object
    start_time,         \* the task's local start_time (line 502)
    exc,                \* the exception being handled at line 558
    hist,               \* history: the raw lines the task has appended
    now,                \* time.time()
    call                \* one call of a function: its name, arguments, result

vars == <<pool, maxLines, freeText, active_downloads, download_results,
          download_progress, options, pc, cmd, proc, returncode, emitted,
          pipe, line, output_lines, aliased, start_time, exc, hist, now,
          call>>

\* ------------------------------------------------------------ output lines

\* A line is its leading whitespace, its words and its line end.
Bodies ==
    << <<"Downloading", "track", "1">>,
       <<"Downloaded", "song">>,
       <<"Error", "timeout">>,
       <<"12", "tracks", "found">>,
       <<"Processing", "cover">>,
       <<"Finished", "Failed">>,
       <<>>,
       <<"Saving", "lyrics">> >>

BodySet == {Bodies[i] : i \in 1..Len(Bodies)}

RawLine(lead, body) == [lead |-> lead, body |-> body, eol |-> "\n"]

\* The n-th line of a scripted run.
ScriptLine(n) ==
    RawLine(IF n % 3 = 0 THEN " " ELSE "", Bodies[((n - 1) % Len(Bodies)) + 1])

NoLine == [lead |-> "", body |-> <<>>, eol |-> ""]

\* str.strip() (line 527): leading and trailing whitespace removed.
Strip(l) == [l EXCEPT !.lead = "", !.eol = ""]

\* str.lower() of a word.
Lower(w) ==
    CASE w = "Downloading" -> "downloading"
      [] w = "Downloaded"  -> "downloaded"
      [] w = "Error"       -> "error"
      [] w = "Failed"      -> "failed"
      [] w = "Finished"    -> "finished"
      [] w = "Processing"  -> "processing"
      [] w = "Saving"      -> "saving"
      [] w = "Track"       -> "track"
      [] w = "Tracks"      -> "tracks"
      [] w = "Found"       -> "found"
      [] OTHER             -> w

\* `w in line`
Has(l, w) == \E i \in 1..Len(l.body) : l.body[i] = w

\* `w in line.lower()`
HasLower(l, w) == \E i \in 1..Len(l.body) : Lower(l.body[i]) = w

\* `'tracks found' in line.lower()`
HasTracksFound(l) ==
    \E i \in 1..(Len(l.body) - 1) :
        Lower(l.body[i]) = "tracks" /\ Lower(l.body[i + 1]) = "found"

IsNumber(w) == w \in {"1", "12"}

IntOf(w) == IF w = "12" THEN 12 ELSE 1

\* re.findall(r'\d+', line)
Numbers(l) == SelectSeq(l.body, IsNumber)

\* ----------------------------------------------------------------- progress

\* Lines 678-686: the record download() stores for a new job.
InitialProgress ==
    [total_tracks |-> 0, completed_tracks |-> 0,
     current_track |-> <<"Initializing...">>, status |-> "starting",
     output_lines |-> <<>>]

\* Lines 343-361: the rules of update_progress_from_line on one record.
ErrorBranchResets(p, l) ==
    [p EXCEPT !.status = "error", !.current_track = <<"Error: ">> \o l.body,
              !.completed_tracks = 0]

ErrorBranch(p, l) ==
    [p EXCEPT !.status = "error", !.current_track = <<"Error: ">> \o l.body]

ApplyLineErrorFirst(p, l) ==
    IF Has(l, "Downloading") /\ HasLower(l, "track")
    THEN [p EXCEPT !.current_track = l.body, !.status = "downloading"]
    ELSE IF Has(l, "Error") \/ Has(l, "Failed")
    THEN ErrorBranch(p, l)
    ELSE IF Has(l, "Downloaded") \/ Has(l, "Finished")
    THEN [p EXCEPT !.completed_tracks = @ + 1, !.status = "downloading"]
    ELSE IF HasTracksFound(l)
    THEN IF Numbers(l) # <<>>
         THEN [p EXCEPT !.total_tracks = IntOf(Numbers(l)[1])]
         ELSE p
    ELSE IF Has(l, "Processing")
    THEN [p EXCEPT !.current_track = l.body, !.status = "processing"]
    ELSE p

ApplyLine(p, l) ==
    IF Has(l, "Downloading") /\ HasLower(l, "track")
    THEN [p EXCEPT !.current_track = l.body, !.status = "downloading"]
    ELSE IF Has(l, "Downloaded") \/ Has(l, "Finished")
    THEN [p EXCEPT !.completed_tracks = @ + 1, !.status = "downloading"]
    ELSE IF Has(l, "Error") \/ Has(l, "Failed")
    THEN ErrorBranch(p, l)
    ELSE IF HasTracksFound(l)
    THEN IF Numbers(l) # <<>>
         THEN [p EXCEPT !.total_tracks = IntOf(Numbers(l)[1])]
         ELSE p
    ELSE IF Has(l, "Processing")
    THEN [p EXCEPT !.current_track = l.body, !.status = "processing"]
    ELSE p

\* Lines 335-364 applied to the record of every job.
update_progress_of_every_job(progress, id, l) ==
    [k \in DOMAIN progress |-> ApplyLine(progress[k], l)]

\* Lines 335-364: update_progress_from_line on the progress map.
update_progress_from_line(progress, id, l) ==
    IF id \notin DOMAIN progress
    THEN progress
    ELSE [progress EXCEPT ![id] = ApplyLine(progress[id], l)]

\* ------------------------------------------------------------------- maps

Put(m, k, v) == [x \in DOMAIN m \cup {k} |-> IF x = k THEN v ELSE m[x]]

Del(m, k) == [x \in DOMAIN m \ {k} |-> m[x]]

EmptyMap == [x \in {} |-> 0]

\* `if download_id in active_downloads: del active_downloads[download_id]`
DelIfPresent(m, k) == IF k \in DOMAIN m THEN Del(m, k) ELSE m

\* The progress record one holder sees after `progress[id]['status'] = s`.
SetStatus(progress, id, s) ==
    IF id \in DOMAIN progress
    THEN [progress EXCEPT ![id].status = s]
    ELSE progress

\* ------------------------------------------------------------ command line

Str(s) == [type |-> "str", val |-> s]

\* A JSON number given for a string option (data.get('language'), line 656).
Num(s) == [type |-> "int", val |-> s]

\* A JSON true or false.
Bool(b) == [type |-> "bool", val |-> IF b THEN "True" ELSE "False"]

\* Python's None as the value of an option.
NoneValue == [type |-> "NoneType", val |-> ""]

\* The option sets download() builds (lines 645-675), by the value of language.
OptionSets ==
    { [language |-> Str("en-US"), output_path |-> Str("folder")],
      [language |-> Num("5"), output_path |-> Str("folder")] }

\* `if v`: a non-empty string, a non-zero number, True.
Truthy(v) ==
    CASE v.type = "str"  -> v.val # ""
      [] v.type = "int"  -> v.val # "0"
      [] v.type = "bool" -> v.val = "True"
      [] OTHER           -> FALSE

\* options.get(key)
Get(opt, key) == IF key \in DOMAIN opt THEN opt[key] ELSE NoneValue

\* The folder used when no output_path is given (line 453).
DOWNLOAD_FOLDER == Str("downloads")

\* os.path.join(os.getcwd(), 'cookies.txt') (line 440).
DefaultCookies == Str("cwd/cookies.txt")

\* Lines 435-446: the cookies arguments, files being the paths that exist.
CookiesArgs(opt, files) ==
    LET given == Get(opt, "cookies_path")
        path == IF ~Truthy(given) /\ DefaultCookies \in files
                THEN DefaultCookies
                ELSE given
    IN IF Truthy(path) /\ path \in files THEN <<Str("-c"), path>> ELSE <<>>

\* Lines 451-460: `if options.get(key): cmd.extend([flag, options[key]])`
PairIf(opt, key, flag) ==
    IF Truthy(Get(opt, key)) THEN <<Str(flag), opt[key]>> ELSE <<>>

\* Lines 466-477: `if options.get(key): cmd.append(flag)`
FlagAlways(opt, key, flag) == <<Str(flag)>>

FlagIf(opt, key, flag) ==
    IF Truthy(Get(opt, key)) THEN <<Str(flag)>> ELSE <<>>

\* Lines 432-479: the argument list of the external tool.
CommandOf(opt, files, processed_urls) ==
    <<Str("python3"), Str("-m"), Str("gamdl")>>
    \o CookiesArgs(opt, files)
    \o (IF Truthy(Get(opt, "output_path"))
        THEN <<Str("-o"), opt.output_path>>
        ELSE <<Str("-o"), DOWNLOAD_FOLDER>>)
    \o PairIf(opt, "language", "-l")
    \o PairIf(opt, "cover_format", "--cover-format")
    \o PairIf(opt, "codec_song", "--codec-song")
    \o PairIf(opt, "quality_post", "--quality-post")
    \o PairIf(opt, "log_level", "--log-level")
    \o <<Str("--no-exceptions")>>
    \o FlagIf(opt, "save_cover", "--save-cover")
    \o FlagIf(opt, "save_playlist", "--save-playlist")
    \o FlagIf(opt, "overwrite", "--overwrite")
    \o FlagIf(opt, "no_synced_lyrics", "--no-synced-lyrics")
    \o FlagIf(opt, "synced_lyrics_only", "--synced-lyrics-only")
    \o FlagIf(opt, "disable_music_video_skip", "--disable-music-video-skip")
    \o processed_urls

\* The argument list of a job: one URL, no cookies file.
BuildCmd(opt) == CommandOf(opt, {}, <<Str("url")>>)

\* ' '.join(cmd) raises TypeError unless every item is a str.
Joinable(c) == \A i \in 1..Len(c) : c[i].type = "str"

Join(c) == [i \in 1..Len(c) |-> c[i].val]

Unset == <<Str("unset")>>

\* Line 562: ' '.join(cmd) if 'cmd' in locals() else 'Command not built'
HandlerCommand(c) == IF c # Unset THEN Join(c) ELSE <<"Command not built">>

\* '\n'.join(output_lines) (line 546): the text as its segments, the words of
\* each line with a line break between two lines.
LineText(l) ==
    (IF l.lead = "" THEN <<>> ELSE <<l.lead>>) \o l.body
    \o (IF l.eol = "" THEN <<>> ELSE <<l.eol>>)

JoinLines(ls) ==
    [i \in 1..(IF ls = <<>> THEN 0 ELSE 2 * Len(ls) - 1) |->
        IF i % 2 = 1 THEN LineText(ls[(i + 1) \div 2]) ELSE <<"\n">>]

\* output_lines[-100:]
LastN(s, n) == IF Len(s) > n THEN SubSeq(s, Len(s) - n + 1, Len(s)) ELSE s

\* Lines 534-535: keep only the last 100 lines.
TrimKeepsFirst(ls) == IF Len(ls) > KeepLines THEN SubSeq(ls, 1, KeepLines) ELSE ls

Trim(ls) == IF Len(ls) > KeepLines THEN LastN(ls, KeepLines) ELSE ls

\* ------------------------------------------------------------------- results
\* The time stamps start_time (line 484) and end_time (lines 518, 549, 563) are
\* written once and never read; the records are modelled without them.

\* Lines 514-519.
TimeoutResult(c) ==
    [status |-> "timeout", error |-> "Download timed out", command |-> Join(c)]

\* Line 544: 'completed' if process.returncode == 0 else 'failed'
ExitStatusNonNegative(code) == IF code >= 0 THEN "completed" ELSE "failed"

ExitStatus(code) == IF code = 0 THEN "completed" ELSE "failed"

\* Lines 543-551; the value of 'progress' is the progress record itself.
FinalResult(code, ls, c, progress, id) ==
    [status |-> ExitStatus(code), returncode |-> code, stdout |-> JoinLines(ls),
     stderr |-> "", command |-> Join(c),
     progress |-> IF id \in DOMAIN progress THEN <<progress[id]>> ELSE <<>>]

\* Lines 559-564.
ErrorResult(e, c) ==
    [status |-> "error", error |-> e, command |-> HandlerCommand(c)]

\* Line 556 as seen through the reference a result of lines 543-551 holds.
SetResultProgressStatus(results, id, s) ==
    IF id \in DOMAIN results /\ results[id].status \in {"completed", "failed"}
       /\ results[id].progress # <<>>
    THEN [results EXCEPT ![id].progress[1].status = s]
    ELSE results

\* ------------------------------------------------------------ status query

\* Lines 770-787: what get_status answers for an id in a given state.
get_status(id) ==
    IF id \in DOMAIN active_downloads THEN "running"
    ELSE IF id \in DOMAIN download_results THEN "completed"
    ELSE "Download ID not found"

\* Lines 770-787: the fields of the answer of get_status.
status_response(id) ==
    IF id \in DOMAIN active_downloads
    THEN [http |-> "200", status |-> "running",
          details |-> active_downloads[id]]
    ELSE IF id \in DOMAIN download_results
    THEN [http |-> "200", status |-> "completed",
          details |-> download_results[id]]
    ELSE [http |-> "404", status |-> "Download ID not found",
          details |-> [status |-> "none"]]

\* The keys of a map one after the other, as a loop over the map visits them.
RECURSIVE Keys(_)
Keys(m) ==
    IF DOMAIN m = {} THEN <<>>
    ELSE LET k == CHOOSE x \in DOMAIN m : TRUE
         IN <<k>> \o Keys(Del(m, k))

\* Lines 796-814: the list GET /downloads answers with, the running jobs
\* first and the finished jobs after them.
list_downloads ==
    [i \in 1..Len(Keys(active_downloads)) |->
        [id |-> Keys(active_downloads)[i], status |-> "running"]]
    \o [i \in 1..Len(Keys(download_results)) |->
        [id |-> Keys(download_results)[i],
         status |-> download_results[Keys(download_results)[i]].status]]

\* ------------------------------------------- parse_apple_music_url (285-333)

\* The text of a URL is modelled by its pieces between the '/' characters,
\* each piece a sequence of tokens: a run of digits, '?', 'pl.', 'i=' or a run
\* of other characters, no two runs of digits next to each other.  pad is the
\* whitespace around the text.  A value that is not a str (a JSON number in a
\* list of URLs) has no text.
StrUrl(pad, segs) == [isstr |-> TRUE, pad |-> pad, segs |-> segs]

NotAStr == [isstr |-> FALSE, pad |-> "", segs |-> <<>>]

DigitRuns == {"1234567890", "1234567891", "159260351"}

IsDigits(t) == t \in DigitRuns

\* 'https://music.apple.com' split at '/'.
Site == << <<"https:">>, <<>>, <<"music.apple.com">> >>

AlbumUrl ==
    StrUrl("", Site \o << <<"us">>, <<"album">>, <<"some-name">>,
                          <<"1234567890">> >>)

SongUrl ==
    StrUrl("", Site \o << <<"us">>, <<"album">>, <<"some-name">>,
                          <<"1234567890", "?", "i=", "1234567891">> >>)

PlaylistUrl ==
    StrUrl("", Site \o << <<"us">>, <<"playlist">>, <<"top-hits">>,
                          <<"pl.", "abc123">> >>)

PlaylistQueryUrl ==
    StrUrl("", Site \o << <<"us">>, <<"playlist">>, <<"top-hits">>,
                          <<"pl.", "abc123", "?", "l=en">> >>)

ArtistUrl ==
    StrUrl("", Site \o << <<"us">>, <<"artist">>, <<"some-name">>,
                          <<"159260351">> >>)

VideoUrl ==
    StrUrl("", Site \o << <<"us">>, <<"music-video">>, <<"some-name">>,
                          <<"159260351">> >>)

NoStorefrontUrl ==
    StrUrl("", Site \o << <<"album">>, <<"some-name">>, <<"1234567890">> >>)

NoNameUrl == StrUrl("", Site \o << <<"us">>, <<"album">>, <<"1234567890">> >>)

WordIdUrl ==
    StrUrl("", Site \o << <<"us">>, <<"album">>, <<"some-name">>,
                          <<"abc123">> >>)

OtherSiteUrl ==
    StrUrl("", << <<"https:">>, <<>>, <<"example.com">>, <<"us">>, <<"album">>,
                  <<"some-name">>, <<"1234567890">> >>)

PaddedAlbumUrl == [AlbumUrl EXCEPT !.pad = " "]

\* The empty text: ''.split('/') is [''].
BlankUrl == StrUrl("", << <<>> >>)

Urls ==
    {AlbumUrl, SongUrl, PlaylistUrl, PlaylistQueryUrl, ArtistUrl, VideoUrl,
     NoStorefrontUrl, NoNameUrl, WordIdUrl, OtherSiteUrl, PaddedAlbumUrl,
     BlankUrl, NotAStr}

\* The text of a sequence of tokens.
RECURSIVE Text(_)
Text(ts) == IF ts = <<>> THEN "" ELSE ts[1] \o Text(Tail(ts))

\* `.replace('-', ' ').title()` (line 302); a run of digits is left as it is.
TitleCase(t) ==
    CASE t = "some-name" -> "Some Name"
      [] t = "top-hits"  -> "Top Hits"
      [] OTHER           -> t

\* [^/?]+ : the tokens up to the first '?'.
RECURSIVE UpToQuery(_)
UpToQuery(ts) ==
    IF ts = <<>> \/ ts[1] = "?" THEN <<>> ELSE <<ts[1]>> \o UpToQuery(Tail(ts))

NoMatch == [found |-> FALSE, g1 |-> "", g2 |-> ""]

Groups(a, b) == [found |-> TRUE, g1 |-> a, g2 |-> b]

\* Lines 289-294: the patterns in the order of the dict.
PatternKinds == <<"album", "playlist", "song", "artist">>

\* The word between the slashes of each pattern.
PathWord(kind) == IF kind = "song" THEN "album" ELSE kind

\* The two last pieces of each pattern: ([^/]+)/(\d+) for album and artist,
\* ([^/]+)/pl\.([^/?]+) for playlist, [^/]+/(\d+)\?i=(\d+) for song.
PatternEnd(kind, name, last) ==
    CASE kind \in {"album", "artist"} ->
            IF last # <<>> /\ IsDigits(last[1])
            THEN Groups(Text(name), last[1])
            ELSE NoMatch
      [] kind = "playlist" ->
            IF Len(last) >= 2 /\ last[1] = "pl." /\ last[2] # "?"
            THEN Groups(Text(name), Text(UpToQuery(Tail(last))))
            ELSE NoMatch
      [] kind = "song" ->
            IF Len(last) >= 4 /\ IsDigits(last[1]) /\ last[2] = "?"
               /\ last[3] = "i=" /\ IsDigits(last[4])
            THEN Groups(last[1], last[4])
            ELSE NoMatch

\* Where in the pieces s the pattern of a kind matches:
\* music\.apple\.com/[^/]+/<word>/ and the two last pieces.
MatchesAt(s, kind) ==
    {h \in 1..(Len(s) - 4) :
        /\ s[h] # <<>>
        /\ s[h][Len(s[h])] = "music.apple.com"
        /\ s[h + 1] # <<>>
        /\ s[h + 2] = <<PathWord(kind)>>
        /\ s[h + 3] # <<>>
        /\ PatternEnd(kind, s[h + 3], s[h + 4]).found}

Least(S) == CHOOSE x \in S : \A y \in S : x <= y

\* re.search(pattern, url) (line 297): the leftmost match.
Search(s, kind) ==
    IF MatchesAt(s, kind) = {}
    THEN NoMatch
    ELSE LET h == Least(MatchesAt(s, kind))
         IN PatternEnd(kind, s[h + 3], s[h + 4])

\* Lines 324-333.
estimate_track_count(content_type) ==
    CASE content_type = "song"     -> Num("1")
      [] content_type = "album"    -> Str("5-15")
      [] content_type = "playlist" -> Str("10-100")
      [] content_type = "artist"   -> Str("20-200")
      [] OTHER                     -> Str("1+")

\* Lines 307-313: the record for a text no pattern matches.
UnknownInfoAsError(url) ==
    [url |-> url, type |-> "error", title |-> "Unknown Content",
     id |-> "error", estimated_tracks |-> Num("1")]

UnknownInfo(url) ==
    [url |-> url, type |-> "unknown", title |-> "Unknown Content",
     id |-> "unknown", estimated_tracks |-> Num("1")]

\* Lines 315-322: the record for an exception.
ErrorInfo(url) ==
    [url |-> url, type |-> "error", title |-> "Error parsing URL: TypeError",
     id |-> "error", estimated_tracks |-> Num("0")]

\* Lines 285-322.  re.search raises TypeError for a value that is not a str.
parse_apple_music_url(url) ==
    IF ~url.isstr
    THEN ErrorInfo(url)
    ELSE LET hits == {i \in 1..Len(PatternKinds) :
                         Search(url.segs, PatternKinds[i]).found}
         IN IF hits = {}
            THEN UnknownInfo(url)
            ELSE LET kind == PatternKinds[Least(hits)]
                     m == Search(url.segs, kind)
                 IN [url |-> url, type |-> kind, title |-> TitleCase(m.g1),
                     id |-> m.g2,
                     estimated_tracks |-> estimate_track_count(kind)]

\* ------------------------------------ get_real_metadata_with_gamdl (127-233)

\* What the Apple Music API does with one request: it raises, it returns
\* nothing, or it returns the entity with its list of tracks.
Raises == [outcome |-> "raises", tracks |-> <<>>]

NoData == [outcome |-> "nodata", tracks |-> <<>>]

Track(i) == [name |-> i]

Data(n) == [outcome |-> "data", tracks |-> [i \in 1..n |-> Track(i)]]

Responses == {Raises, NoData} \cup {Data(n) : n \in 0..MaxTracks}

\* Python's None where a record is expected.
None == [type |-> "None"]

Min(a, b) == IF a < b THEN a ELSE b

\* tracks[:15] (lines 159 and 188).
LastTracks(tracks) ==
    SubSeq(tracks, Len(tracks) - Min(Len(tracks), PreviewTracks) + 1,
           Len(tracks))

FirstTracks(tracks) == SubSeq(tracks, 1, Min(Len(tracks), PreviewTracks))

\* Lines 152-158 and 181-187: the entry of one track (its name; the other
\* attributes are copied the same way).
PreviewItem(track) == [name |-> track.name]

\* Lines 142-166 and 171-195: the record of an album or a playlist.
TrackListRecord(url, kind, id, tracks) ==
    [url |-> url, type |-> kind, id |-> id,
     estimated_tracks |-> Len(tracks), actual_tracks |-> Len(tracks),
     tracks |-> [i \in 1..Len(FirstTracks(tracks)) |->
                    PreviewItem(FirstTracks(tracks)[i])],
     has_more_tracks |-> Len(tracks) > PreviewTracks]

\* Lines 127-233.  An exception of the request is caught at line 231; an
\* empty answer and a type without a request fall through to `return None`.
get_real_metadata_with_gamdl(resp, url_info, url) ==
    IF url_info.type \notin {"album", "playlist", "song", "artist"}
    THEN None
    ELSE IF resp.outcome # "data"
    THEN None
    ELSE IF url_info.type \in {"album", "playlist"}
    THEN TrackListRecord(url, url_info.type, url_info.id, resp.tracks)
    ELSE IF url_info.type = "song"
    THEN [url |-> url, type |-> "song", id |-> url_info.id,
          estimated_tracks |-> 1, actual_tracks |-> 1]
    ELSE [url |-> url, type |-> "artist", id |-> url_info.id,
          estimated_tracks |-> "Many albums/songs",
          actual_tracks |-> "Variable (albums and singles)"]

\* ------------------------------------------ get_metadata_from_urls (51-125)

\* The cookies_path argument: absent, a path with no file, a file the API
\* client rejects, a valid file, a value os.path.exists raises TypeError for
\* (a JSON list), and any path while the gamdl modules are not installed.
CookieCases == {"none", "nofile", "invalid", "valid", "notapath", "nomodule"}

\* Lines 57-64.
ApiOf(cookies) == IF cookies = "valid" THEN "api" ELSE "None"

\* What gamdl's own URL parsing does (lines 82-105): the module is not
\* installed, it raises, it returns nothing, it returns a UrlInfo.
GamdlCases == {"nomodule", "raises", "none", "info"}

\* Lines 98-104.
GamdlInfo(url) ==
    [url |-> url, type |-> "album", id |-> "1234567890",
     title |-> "Album (ID: 1234567890)", estimated_tracks |-> Str("Unknown")]

IsBlank(u) == u.segs = << <<>> >>

\* Lines 66-67: the lines of a text, stripped, blank lines dropped; a list is
\* taken as it is.
UrlList(aslist, items) ==
    IF aslist
    THEN items
    ELSE LET kept == SelectSeq(items, LAMBDA u : ~IsBlank(u))
         IN [i \in 1..Len(kept) |-> [kept[i] EXCEPT !.pad = ""]]

\* Lines 70-108: the record of one URL.  No statement of the loop body raises
\* outside the inner handlers, so the handler of lines 110-118 is never entered.
MetadataForMarksError(url, api, resp, gamdl) ==
    LET url_info == parse_apple_music_url(url)
        real == IF api = "api" /\ url_info.type # "error"
                THEN get_real_metadata_with_gamdl(resp, url_info, url)
                ELSE None
    IN IF real # None
       THEN real
       ELSE [url_info EXCEPT !.type = "error"]

MetadataFor(url, api, resp, gamdl) ==
    LET url_info == parse_apple_music_url(url)
        real == IF api = "api" /\ url_info.type # "error"
                THEN get_real_metadata_with_gamdl(resp, url_info, url)
                ELSE None
    IN IF real # None
       THEN real
       ELSE IF gamdl = "info" /\ url_info.type = "error"
       THEN GamdlInfo(url)
       ELSE url_info

\* Lines 51-125 with the batch cut short at the first request that raises.
MetadataAbortsOnFailure(in) ==
    LET urls == UrlList(in.aslist, in.items)
        bad == {i \in 1..Len(urls) : in.resps[i] = Raises}
    IN [i \in 1..(IF bad = {} THEN Len(urls) ELSE Least(bad) - 1) |->
           MetadataFor(urls[i], ApiOf(in.cookies), in.resps[i], in.gamdl)]

\* Lines 51-125.  in.resps[i] is what the API does with the request for the
\* i-th URL.  An exception outside the loop (os.path.exists on a value that is
\* not a path) is caught at line 123 and gives the empty list.
get_metadata_from_urls(in) ==
    IF in.cookies = "notapath"
    THEN <<>>
    ELSE LET urls == UrlList(in.aslist, in.items)
         IN [i \in 1..Len(urls) |->
                MetadataFor(urls[i], ApiOf(in.cookies), in.resps[i], in.gamdl)]

\* ------------------------------------- artist expansion (lines 384-429)

\* The words of the model's URLs that contain 'artist'.
ArtistWords == {"artist", "the-artist"}

\* An album whose name contains 'artist'.
ArtistNamedAlbumUrl ==
    StrUrl("", Site \o << <<"us">>, <<"album">>, <<"the-artist">>,
                          <<"1234567890">> >>)

\* `'artist' in url` (line 401)
HasArtistWord(u) ==
    \E i \in 1..Len(u.segs) :
        \E k \in 1..Len(u.segs[i]) : u.segs[i][k] \in ArtistWords

\* re.search(r'artist/([^/]+)/(\d+)', url) (line 403): a piece ending in
\* 'artist', a piece that is not empty, a piece beginning with digits.
ArtistIdAt(s) ==
    {h \in 1..(Len(s) - 2) :
        /\ s[h] # <<>>
        /\ s[h][Len(s[h])] \in ArtistWords
        /\ s[h + 1] # <<>>
        /\ s[h + 2] # <<>>
        /\ IsDigits(s[h + 2][1])}

\* What api.get_artist does: it raises, it returns nothing (the .get of line
\* 409 then raises), or it returns the artist with some relationships, each
\* with a list of ids.
IdLists == {<<>>, <<"1234567890", "1234567891">>}

ArtistAnswers ==
    {[outcome |-> "raises", rel |-> <<>>], [outcome |-> "nodata", rel |-> <<>>]}
    \cup {[outcome |-> "data", rel |-> r] :
            r \in UNION {[D -> IdLists] : D \in SUBSET {"albums", "music-videos"}}}

\* options.get('artist_download_type', 'albums') (line 408): the key absent,
\* or one of three values.
DownloadTypes == {"absent", "albums", "music-videos", "songs"}

\* Lines 412 and 417: f"https://music.apple.com/album/{id}" and
\* f"https://music.apple.com/music-video/{id}".
Link(word, id) == StrUrl("", Site \o << <<word>>, <<id>> >>)

\* Lines 400-426: the URLs one input URL adds to processed_urls.
ExpandUrl(url, api, answer, dtype) ==
    IF ~(HasArtistWord(url) /\ api)
    THEN <<url>>
    ELSE IF ArtistIdAt(url.segs) = {}
    THEN <<url>>
    ELSE IF answer.outcome # "data"
    THEN <<url>>
    ELSE LET download_type == IF dtype = "absent" THEN "albums" ELSE dtype
             rel == answer.rel
         IN IF download_type = "albums" /\ "albums" \in DOMAIN rel
            THEN [i \in 1..Len(rel["albums"]) |-> Link("album", rel["albums"][i])]
            ELSE IF download_type = "music-videos"
                    /\ "music-videos" \in DOMAIN rel
            THEN [i \in 1..Len(rel["music-videos"]) |->
                     Link("music-video", rel["music-videos"][i])]
            ELSE <<url>>

RECURSIVE Flatten(_)
Flatten(parts) ==
    IF parts = <<>> THEN <<>> ELSE parts[1] \o Flatten(Tail(parts))

\* No function is being called.
NoCall == [op |-> "none"]

\* -------------------------------------------------------------------- Init

InitJobs ==
    /\ active_downloads = EmptyMap
    /\ download_results = EmptyMap
    /\ download_progress = EmptyMap
    /\ options = [j \in Ids |-> [language |-> Str("")]]
    /\ pc = [j \in Ids |-> "none"]
    /\ cmd = [j \in Ids |-> Unset]
    /\ proc = [j \in Ids |-> "none"]
    /\ returncode = [j \in Ids |-> NoCode]
    /\ emitted = [j \in Ids |-> 0]
    /\ pipe = [j \in Ids |-> <<>>]
    /\ line = [j \in Ids |-> NoLine]
    /\ output_lines = [j \in Ids |-> <<>>]
    /\ aliased = [j \in Ids |-> FALSE]
    /\ start_time = [j \in Ids |-> 0]
    /\ exc = [j \in Ids |-> ""]
    /\ hist = [j \in Ids |-> <<>>]
    /\ now = 0
    /\ call = NoCall

\* Two jobs, each process writing a short scripted output.
Init == InitJobs /\ pool = Ids /\ maxLines = ShortRun /\ freeText = FALSE

\* One job whose process writes more lines than the buffer keeps.
InitLong == InitJobs /\ pool = {"id1"} /\ maxLines = LongRun /\ freeText = FALSE

\* One job whose process writes any lines.
InitFree == InitJobs /\ pool = {"id1"} /\ maxLines = FreeRun /\ freeText = TRUE

\* Two jobs, each process writing one line less than the short output.
InitPair ==
    InitJobs /\ pool = Ids /\ maxLines = ShortRun - 1 /\ freeText = FALSE

\* One job, short scripted output.
InitOne == InitJobs /\ pool = {"id1"} /\ maxLines = ShortRun /\ freeText = FALSE

\* ------------------------------------------------- POST /download (604-704)

\* Lines 627-701: allocate the id, store the progress record, start the task.
Submit(id, opt) ==
    /\ id \in pool
    /\ pool' = pool \ {id}
    /\ download_progress' = Put(download_progress, id, InitialProgress)
    /\ options' = [options EXCEPT ![id] = opt]
    /\ pc' = [pc EXCEPT ![id] = "start"]
    /\ UNCHANGED <<maxLines, freeText, active_downloads, download_results, cmd,
                   proc, returncode, emitted, pipe, line, output_lines, aliased,
                   start_time, exc, hist, now, call>>

\* ------------------------------------------- run_gamdl_command (366-568)

TaskFrame ==
    UNCHANGED <<pool, maxLines, freeText, options, emitted, now, call>>

\* Lines 370-382: the progress record exists; status running.
TaskStart(j) ==
    /\ pc[j] = "start"
    /\ download_progress' =
          LET p == IF j \in DOMAIN download_progress
                   THEN download_progress
                   ELSE Put(download_progress, j, InitialProgress)
          IN [p EXCEPT ![j].status = "running",
                       ![j].current_track = <<"Building command...">>]
    /\ pc' = [pc EXCEPT ![j] = "build"]
    /\ TaskFrame
    /\ UNCHANGED <<active_downloads, download_results, cmd, proc, returncode,
                   pipe, line, output_lines, aliased, start_time, exc, hist>>

\* Lines 384-486: build cmd, then register the job under its joined command.
\* The join of line 483 raises before the assignment of line 481 is made.
TaskRegister(j) ==
    /\ pc[j] = "build"
    /\ cmd' = [cmd EXCEPT ![j] = BuildCmd(options[j])]
    /\ IF Joinable(cmd'[j])
       THEN /\ active_downloads' =
                  Put(active_downloads, j,
                      [status |-> "running", command |-> Join(cmd'[j])])
            /\ pc' = [pc EXCEPT ![j] = "spawn"]
            /\ exc' = exc
       ELSE /\ active_downloads' = active_downloads
            /\ pc' = [pc EXCEPT ![j] = "except"]
            /\ exc' = [exc EXCEPT ![j] = "TypeError"]
    /\ TaskFrame
    /\ UNCHANGED <<download_results, download_progress, proc, returncode, pipe,
                   line, output_lines, aliased, start_time, hist>>

\* Lines 488-503: the process starts; output_lines = [], start_time = now.
TaskSpawn(j) ==
    /\ pc[j] = "spawn"
    /\ download_progress' =
          [download_progress EXCEPT
              ![j].current_track = <<"Starting download process...">>]
    /\ proc' = [proc EXCEPT ![j] = "running"]
    /\ output_lines' = [output_lines EXCEPT ![j] = <<>>]
    /\ start_time' = [start_time EXCEPT ![j] = now]
    /\ pc' = [pc EXCEPT ![j] = "read"]
    /\ TaskFrame
    /\ UNCHANGED <<active_downloads, download_results, cmd, returncode, pipe,
                   line, aliased, exc, hist>>

\* Lines 488-499: subprocess.Popen raises (the interpreter is not found).
TaskSpawnFails(j) ==
    /\ pc[j] = "spawn"
    /\ download_progress' =
          [download_progress EXCEPT
              ![j].current_track = <<"Starting download process...">>]
    /\ exc' = [exc EXCEPT ![j] = "OSError"]
    /\ pc' = [pc EXCEPT ![j] = "except"]
    /\ TaskFrame
    /\ UNCHANGED <<active_downloads, download_results, cmd, proc, returncode,
                   pipe, line, output_lines, aliased, start_time, hist>>

\* process.stdout.readline() returns when a line is there or at end of file;
\* until then it blocks.
ReadReturns(j) == pipe[j] # <<>> \/ proc[j] \in {"closed", "exited"}

\* Line 511: time.time() - start_time > timeout_seconds
TimedOutAtLimit(j) == now - start_time[j] >= timeout_seconds

TimedOut(j) == now - start_time[j] > timeout_seconds

\* Lines 506-526: read a line; leave the loop at end of file of an exited
\* process, go to the timeout branch, take the line, or loop.
TaskRead(j) ==
    /\ pc[j] = "read"
    /\ ReadReturns(j)
    /\ LET l == IF pipe[j] # <<>> THEN Head(pipe[j]) ELSE NoLine
       IN /\ pipe' = [pipe EXCEPT ![j] = IF @ # <<>> THEN Tail(@) ELSE @]
          /\ line' = [line EXCEPT ![j] = l]
          /\ pc' = [pc EXCEPT ![j] =
                IF l = NoLine /\ proc[j] = "exited" THEN "result"
                ELSE IF TimedOut(j) THEN "terminate"
                ELSE IF l # NoLine THEN "append"
                ELSE "read"]
    /\ TaskFrame
    /\ UNCHANGED <<active_downloads, download_results, download_progress, cmd,
                   proc, returncode, output_lines, aliased, start_time, exc,
                   hist>>

\* Line 506: readline raises on bytes that are not text (text=True).
TaskReadFails(j) ==
    /\ pc[j] = "read"
    /\ pipe[j] # <<>>
    /\ pipe' = [pipe EXCEPT ![j] = Tail(@)]
    /\ exc' = [exc EXCEPT ![j] = "UnicodeDecodeError"]
    /\ pc' = [pc EXCEPT ![j] = "except"]
    /\ TaskFrame
    /\ UNCHANGED <<active_downloads, download_results, download_progress, cmd,
                   proc, returncode, line, output_lines, aliased, start_time,
                   hist>>

\* Lines 512-513: process.terminate(); process.wait()
TaskTerminate(j) ==
    /\ pc[j] = "terminate"
    /\ proc' = [proc EXCEPT ![j] = "exited"]
    /\ returncode' = [returncode EXCEPT ![j] =
                         IF proc[j] = "exited" THEN @ ELSE SIGTERM]
    /\ pc' = [pc EXCEPT ![j] = "timeout_result"]
    /\ TaskFrame
    /\ UNCHANGED <<active_downloads, download_results, download_progress, cmd,
                   pipe, line, output_lines, aliased, start_time, exc, hist>>

\* Lines 514-519.
TaskTimeoutResult(j) ==
    /\ pc[j] = "timeout_result"
    /\ download_results' = Put(download_results, j, TimeoutResult(cmd[j]))
    /\ pc' = [pc EXCEPT ![j] = "timeout_del"]
    /\ TaskFrame
    /\ UNCHANGED <<active_downloads, download_progress, cmd, proc, returncode,
                   pipe, line, output_lines, aliased, start_time, exc, hist>>

\* Lines 520-521.
TaskTimeoutDel(j) ==
    /\ pc[j] = "timeout_del"
    /\ active_downloads' = DelIfPresent(active_downloads, j)
    /\ pc' = [pc EXCEPT ![j] = "timeout_progress"]
    /\ TaskFrame
    /\ UNCHANGED <<download_results, download_progress, cmd, proc, returncode,
                   pipe, line, output_lines, aliased, start_time, exc, hist>>

\* Lines 522-524.
TaskTimeoutProgress(j) ==
    /\ pc[j] = "timeout_progress"
    /\ download_progress' = SetStatus(download_progress, j, "timeout")
    /\ pc' = [pc EXCEPT ![j] = "done"]
    /\ TaskFrame
    /\ UNCHANGED <<active_downloads, download_results, cmd, proc, returncode,
                   pipe, line, output_lines, aliased, start_time, exc, hist>>

\* Lines 527-528: strip the line and append it to the list output_lines; the
\* progress record sees the append when it holds that same list.
TaskAppend(j) ==
    /\ pc[j] = "append"
    /\ line' = [line EXCEPT ![j] = Strip(@)]
    /\ output_lines' = [output_lines EXCEPT ![j] = Append(@, Strip(line[j]))]
    /\ download_progress' =
          IF aliased[j]
          THEN [download_progress EXCEPT
                   ![j].output_lines = Append(@, Strip(line[j]))]
          ELSE download_progress
    /\ hist' = [hist EXCEPT ![j] = Append(@, line[j])]
    /\ pc' = [pc EXCEPT ![j] = "classify"]
    /\ TaskFrame
    /\ UNCHANGED <<active_downloads, download_results, cmd, proc, returncode,
                   pipe, aliased, start_time, exc>>

\* Line 531.
TaskClassify(j) ==
    /\ pc[j] = "classify"
    /\ download_progress' =
          update_progress_from_line(download_progress, j, line[j])
    /\ pc' = [pc EXCEPT ![j] = "trim"]
    /\ TaskFrame
    /\ UNCHANGED <<active_downloads, download_results, cmd, proc, returncode,
                   pipe, line, output_lines, aliased, start_time, exc, hist>>

\* Lines 534-537: output_lines becomes a new list of the last 100 lines when
\* it is longer, and the progress record is given the list.
TaskTrimAssign(j) ==
    /\ pc[j] = "trim"
    /\ output_lines' = [output_lines EXCEPT ![j] = Trim(@)]
    /\ download_progress' =
          [download_progress EXCEPT ![j].output_lines = output_lines'[j]]
    /\ aliased' = [aliased EXCEPT ![j] = TRUE]
    /\ pc' = [pc EXCEPT ![j] = "read"]
    /\ TaskFrame
    /\ UNCHANGED <<active_downloads, download_results, cmd, proc, returncode,
                   pipe, line, start_time, exc, hist>>

\* Lines 540-551: process.wait() and the final result.
TaskResult(j) ==
    /\ pc[j] = "result"
    /\ download_results' =
          Put(download_results, j,
              FinalResult(returncode[j], output_lines[j], cmd[j],
                          download_progress, j))
    /\ pc' = [pc EXCEPT ![j] = "finish_del"]
    /\ TaskFrame
    /\ UNCHANGED <<active_downloads, download_progress, cmd, proc, returncode,
                   pipe, line, output_lines, aliased, start_time, exc, hist>>

\* Lines 553-554, the progress record deleted as well.
TaskFinishDelEvicts(j) ==
    /\ pc[j] = "finish_del"
    /\ active_downloads' = DelIfPresent(active_downloads, j)
    /\ download_progress' = DelIfPresent(download_progress, j)
    /\ pc' = [pc EXCEPT ![j] = "finish_progress"]
    /\ TaskFrame
    /\ UNCHANGED <<download_results, cmd, proc, returncode, pipe, line,
                   output_lines, aliased, start_time, exc, hist>>

\* Lines 553-554.
TaskFinishDel(j) ==
    /\ pc[j] = "finish_del"
    /\ active_downloads' = DelIfPresent(active_downloads, j)
    /\ pc' = [pc EXCEPT ![j] = "finish_progress"]
    /\ TaskFrame
    /\ UNCHANGED <<download_results, download_progress, cmd, proc, returncode,
                   pipe, line, output_lines, aliased, start_time, exc, hist>>

\* Lines 555-556: the progress record, which the result holds too.
TaskFinishProgressReinserts(j) ==
    /\ pc[j] = "finish_progress"
    /\ download_progress' = SetStatus(download_progress, j, "completed")
    /\ active_downloads' =
          Put(active_downloads, j,
              [status |-> "completed", command |-> Join(cmd[j])])
    /\ pc' = [pc EXCEPT ![j] = "done"]
    /\ TaskFrame
    /\ UNCHANGED <<download_results, cmd, proc, returncode, pipe, line,
                   output_lines, aliased, start_time, exc, hist>>

TaskFinishProgress(j) ==
    /\ pc[j] = "finish_progress"
    /\ download_progress' = SetStatus(download_progress, j, "completed")
    /\ download_results' =
          IF j \in DOMAIN download_progress
          THEN SetResultProgressStatus(download_results, j, "completed")
          ELSE download_results
    /\ pc' = [pc EXCEPT ![j] = "done"]
    /\ TaskFrame
    /\ UNCHANGED <<active_downloads, cmd, proc, returncode, pipe, line,
                   output_lines, aliased, start_time, exc, hist>>

\* Lines 558-564: the handler.  Its own ' '.join(cmd) raises again when cmd
\* holds an item that is not a str, and that exception leaves the task.
TaskExcept(j) ==
    /\ pc[j] = "except"
    /\ IF cmd[j] # Unset /\ ~Joinable(cmd[j])
       THEN /\ download_results' = download_results
            /\ pc' = [pc EXCEPT ![j] = "raised"]
       ELSE /\ download_results' =
                  Put(download_results, j, ErrorResult(exc[j], cmd[j]))
            /\ pc' = [pc EXCEPT ![j] = "except_del"]
    /\ TaskFrame
    /\ UNCHANGED <<active_downloads, download_progress, cmd, proc, returncode,
                   pipe, line, output_lines, aliased, start_time, exc, hist>>

\* Lines 565-566.
TaskExceptDel(j) ==
    /\ pc[j] = "except_del"
    /\ active_downloads' = DelIfPresent(active_downloads, j)
    /\ pc' = [pc EXCEPT ![j] = "except_progress"]
    /\ TaskFrame
    /\ UNCHANGED <<download_results, download_progress, cmd, proc, returncode,
                   pipe, line, output_lines, aliased, start_time, exc, hist>>

\* Lines 567-568.
TaskExceptProgress(j) ==
    /\ pc[j] = "except_progress"
    /\ download_progress' = SetStatus(download_progress, j, "error")
    /\ pc' = [pc EXCEPT ![j] = "done"]
    /\ TaskFrame
    /\ UNCHANGED <<active_downloads, download_results, cmd, proc, returncode,
                   pipe, line, output_lines, aliased, start_time, exc, hist>>

\* One step of the background task of job j.
Task(j) ==
    \/ TaskStart(j) \/ TaskRegister(j) \/ TaskSpawn(j) \/ TaskSpawnFails(j)
    \/ TaskRead(j) \/ TaskReadFails(j) \/ TaskTerminate(j)
    \/ TaskTimeoutResult(j) \/ TaskTimeoutDel(j) \/ TaskTimeoutProgress(j)
    \/ TaskAppend(j) \/ TaskClassify(j) \/ TaskTrimAssign(j)
    \/ TaskResult(j) \/ TaskFinishDel(j) \/ TaskFinishProgress(j)
    \/ TaskExcept(j) \/ TaskExceptDel(j) \/ TaskExceptProgress(j)

\* ----------------------------------------------- the external tool and time

EnvFrame ==
    UNCHANGED <<pool, maxLines, freeText, active_downloads, download_results,
                download_progress, options, pc, cmd, line, output_lines,
                aliased, start_time, exc, hist, call>>

\* The lines the process may write next.
NextLines(j) ==
    IF freeText
    THEN {RawLine(" ", body) : body \in BodySet}
    ELSE {ScriptLine(emitted[j] + 1)}

\* The process writes a line to its standard output.
ProcWrite(j, l) ==
    /\ proc[j] = "running"
    /\ emitted[j] < maxLines
    /\ Len(pipe[j]) < PipeCap
    /\ pipe' = [pipe EXCEPT ![j] = Append(@, l)]
    /\ emitted' = [emitted EXCEPT ![j] = @ + 1]
    /\ UNCHANGED <<proc, returncode, now>>
    /\ EnvFrame

\* The process closes its standard output and keeps running.
ProcClose(j) ==
    /\ proc[j] = "running"
    /\ proc' = [proc EXCEPT ![j] = "closed"]
    /\ UNCHANGED <<returncode, emitted, pipe, now>>
    /\ EnvFrame

\* The process exits by itself.
ProcExit(j, code) ==
    /\ proc[j] \in {"running", "closed"}
    /\ proc' = [proc EXCEPT ![j] = "exited"]
    /\ returncode' = [returncode EXCEPT ![j] = code]
    /\ UNCHANGED <<emitted, pipe, now>>
    /\ EnvFrame

\* Time passes.
Tick ==
    /\ now + ClockStep <= MaxClock
    /\ now' = now + ClockStep
    /\ UNCHANGED <<proc, returncode, emitted, pipe>>
    /\ EnvFrame

\* ---------------------------------------------------------- specifications

Next ==
    \/ \E id \in Ids, opt \in OptionSets : Submit(id, opt)
    \/ \E j \in Ids : Task(j)
    \/ \E j \in Ids : \E l \in NextLines(j) : ProcWrite(j, l)
    \/ \E j \in Ids : ProcClose(j)
    \/ \E j \in Ids, code \in ExitCodes : ProcExit(j, code)
    \/ Tick

Spec == Init /\ [][Next]_vars

SpecLong == InitLong /\ [][Next]_vars

SpecPair == InitPair /\ [][Next]_vars

SpecFree == InitFree /\ [][Next]_vars

\* Every started task thread keeps being scheduled; the external process and
\* the clock are under no obligation.
FairSpec == InitOne /\ [][Next]_vars /\ \A j \in Ids : WF_vars(Task(j))

\* ------------------------------------------------- the functions on their own

\* No job runs while a function is called on its own.
InitPure == InitJobs /\ pool = {} /\ maxLines = 0 /\ freeText = FALSE

PureFrame ==
    UNCHANGED <<pool, maxLines, freeText, active_downloads, download_results,
                download_progress, options, pc, cmd, proc, returncode,
                emitted, pipe, line, output_lines, aliased, start_time, exc,
                hist, now>>

\* One call of parse_apple_music_url.
CallParse ==
    /\ call = NoCall
    /\ \E u \in Urls :
          call' = [op |-> "parse_apple_music_url", url |-> u,
                   ret |-> parse_apple_music_url(u)]
    /\ PureFrame

\* The URLs of a batch and what the API does with their requests.
BatchUrls == {AlbumUrl, PlaylistUrl, VideoUrl, PaddedAlbumUrl, BlankUrl}

BatchResponses == {Raises, NoData, Data(1)}

SeqsUpTo(S, n) == UNION {[1..k -> S] : k \in 0..n}

\* One call of get_metadata_from_urls, with a text of lines or with a list.
CallMetadata ==
    /\ call = NoCall
    /\ \E aslist \in BOOLEAN, cookies \in CookieCases, gamdl \in GamdlCases :
       \E items \in SeqsUpTo(BatchUrls \cup (IF aslist THEN {NotAStr} ELSE {}),
                             MaxBatch) :
       \E resps \in [1..Len(UrlList(aslist, items)) -> BatchResponses] :
          LET in == [aslist |-> aslist, items |-> items, cookies |-> cookies,
                     gamdl |-> gamdl, resps |-> resps]
          IN call' = [op |-> "get_metadata_from_urls", in |-> in,
                      ret |-> get_metadata_from_urls(in)]
    /\ PureFrame

\* One call of get_real_metadata_with_gamdl.
CallRealMetadata ==
    /\ call = NoCall
    /\ \E kind \in {"album", "playlist", "song", "artist", "unknown"},
          resp \in Responses :
          call' = [op |-> "get_real_metadata_with_gamdl", kind |-> kind,
                   resp |-> resp,
                   ret |-> get_real_metadata_with_gamdl(
                              resp, [type |-> kind, id |-> "1234567890"],
                              AlbumUrl)]
    /\ PureFrame

\* The values of a string option: empty, or one value of the tool.
Values(v) == {Str(""), Str(v)}

\* The option records of the advanced mode (lines 655-668); a key the request
\* lacks has the value None.
AdvancedOptions ==
    [cookies_path : {NoneValue, Str("cookies.txt")},
     output_path : {Str("folder")},
     language : Values("en-US") \cup {NoneValue},
     cover_format : Values("png"),
     codec_song : Values("aac"),
     quality_post : Values("best"),
     log_level : Values("DEBUG"),
     save_cover : {Bool(FALSE), Bool(TRUE)},
     save_playlist : {Bool(FALSE), Bool(TRUE)},
     overwrite : {Bool(FALSE), Bool(TRUE)},
     no_synced_lyrics : {Bool(FALSE), Bool(TRUE)},
     synced_lyrics_only : {Bool(FALSE), Bool(TRUE)},
     disable_music_video_skip : {Bool(FALSE), Bool(TRUE)}]

\* The command building of run_gamdl_command (lines 431-479) for one option
\* record, the cookies file existing or not.
CallBuildCmd ==
    /\ call = NoCall
    /\ \E opt \in AdvancedOptions,
          files \in {{}, {DefaultCookies}, {Str("cookies.txt")}} :
          call' = [op |-> "build_command", options |-> opt, files |-> files,
                   ret |-> CommandOf(opt, files, <<Str("url")>>)]
    /\ PureFrame

\* The URL expansion of run_gamdl_command (lines 384-429) for the URLs of one
\* job: parts[i] is what the i-th URL adds, ret is processed_urls.
CallExpand ==
    /\ call = NoCall
    /\ \E items \in SeqsUpTo({AlbumUrl, ArtistUrl, ArtistNamedAlbumUrl,
                               BlankUrl}, MaxBatch),
          api \in BOOLEAN, answer \in ArtistAnswers, dtype \in DownloadTypes :
          LET url_list == UrlList(FALSE, items)
              parts == [i \in 1..Len(url_list) |->
                           ExpandUrl(url_list[i], api, answer, dtype)]
          IN call' = [op |-> "expand_urls", urls |-> url_list, api |-> api,
                      answer |-> answer, dtype |-> dtype, parts |-> parts,
                      ret |-> Flatten(parts)]
    /\ PureFrame

\* The lines of the external tool, in either case.
LineBodies ==
    BodySet \cup
    { <<"downloading", "track", "2">>,
      <<"Downloading", "Track", "1">>,
      <<"Downloading", "album">>,
      <<"downloaded", "song">>,
      <<"error", "timeout">>,
      <<"Error", "Downloaded">>,
      <<"12", "Tracks", "Found">>,
      <<"tracks", "found">>,
      <<"processing", "cover">>,
      <<"Processing", "failed">> }

\* A progress record of a job under way.
MidProgress ==
    [total_tracks |-> 12, completed_tracks |-> 1,
     current_track |-> <<"Downloading", "track", "1">>,
     status |-> "downloading", output_lines |-> <<>>]

\* One call of update_progress_from_line on a stripped line.
CallLine ==
    /\ call = NoCall
    /\ \E body \in LineBodies, p \in {InitialProgress, MidProgress} :
          call' = [op |-> "update_progress_from_line",
                   line |-> Strip(RawLine("", body)), before |-> p,
                   ret |-> ApplyLine(p, Strip(RawLine("", body)))]
    /\ PureFrame

NextPure ==
    \/ CallParse
    \/ CallExpand
    \/ CallLine
    \/ CallBuildCmd
    \/ CallMetadata
    \/ CallRealMetadata

SpecPure == InitPure /\ [][NextPure]_vars

\* ---------------------------------------- the requests, statement by statement

\* One job and one request thread: call holds the request being served, the
\* place it has reached and, once it is answered, the answer.
InitReq == InitJobs /\ pool = {"id1"} /\ maxLines = ShortRun /\ freeText = FALSE

ReqFrame ==
    UNCHANGED <<pool, maxLines, freeText, active_downloads, download_results,
                download_progress, options, pc, cmd, proc, returncode,
                emitted, pipe, line, output_lines, aliased, start_time, exc,
                hist, now>>

NoAnswer == [http |-> "none", status |-> "none"]

Answered == call.op # "none" /\ call.ret # NoAnswer

\* Line 770 of get_status: `if download_id in active_downloads`.
StatusBegin(id) ==
    /\ call = NoCall
    /\ call' = [op |-> "get_status", id |-> id,
                at |-> IF id \in DOMAIN active_downloads
                       THEN "running" ELSE "elif",
                ret |-> NoAnswer]
    /\ ReqFrame

\* Line 778: `elif download_id in download_results`, and the 404 of line 787.
StatusElif ==
    /\ call.op = "get_status"
    /\ call.at = "elif"
    /\ call' = IF call.id \in DOMAIN download_results
               THEN [call EXCEPT !.at = "finished"]
               ELSE [call EXCEPT !.at = "answered",
                                 !.ret = [http |-> "404",
                                          status |-> "Download ID not found"]]
    /\ ReqFrame

\* Lines 771-776 and 779-784 with the job removed from active_downloads as
\* soon as it has a result.
StatusReadFinishes ==
    /\ call.op = "get_status"
    /\ call.at \in {"running", "finished"}
    /\ call' = [call EXCEPT !.at = "answered",
                            !.ret = [http |-> "200", status |-> "completed"]]
    /\ active_downloads' =
          IF call.id \in DOMAIN download_results
          THEN DelIfPresent(active_downloads, call.id)
          ELSE active_downloads
    /\ UNCHANGED <<pool, maxLines, freeText, download_results,
                   download_progress, options, pc, cmd, proc, returncode,
                   emitted, pipe, line, output_lines, aliased, start_time,
                   exc, hist, now>>

\* Lines 771-776 and 779-784: the subscript of line 774 raises KeyError when
\* the id has left active_downloads since line 770; the handler of line 789
\* answers 500.
StatusRead ==
    /\ call.op = "get_status"
    /\ call.at \in {"running", "finished"}
    /\ call' = [call EXCEPT
          !.at = "answered",
          !.ret = IF call.at = "finished"
                  THEN [http |-> "200", status |-> "completed"]
                  ELSE IF call.id \in DOMAIN active_downloads
                  THEN [http |-> "200", status |-> "running"]
                  ELSE [http |-> "500", status |-> "KeyError"]]
    /\ ReqFrame

\* Line 796 and the iter() of line 799; a dict iterator remembers the size of
\* the dict at its creation.
ListBegin ==
    /\ call = NoCall
    /\ call' = [op |-> "list_downloads", at |-> "active",
                size |-> Cardinality(DOMAIN active_downloads), seen |-> {},
                out |-> <<>>, ret |-> NoAnswer]
    /\ ReqFrame

\* The map the loop of the list request is iterating.
Iterated == IF call.at = "active" THEN active_downloads ELSE download_results

\* The status line 801 or line 809 gives the entry of id k.
ListedStatus(k) ==
    IF call.at = "active" THEN "running" ELSE download_results[k].status

\* One turn of the loops of lines 799-811: the iterator raises RuntimeError
\* when the size of the dict is no longer the size it remembers (the handler
\* of line 816 answers 500), ends when no entry is left, or gives an entry.
ListNext ==
    /\ call.op = "list_downloads"
    /\ call.at \in {"active", "results"}
    /\ IF Cardinality(DOMAIN Iterated) # call.size
       THEN call' = [call EXCEPT !.at = "answered",
                                 !.ret = [http |-> "500",
                                          status |-> "RuntimeError"]]
       ELSE IF DOMAIN Iterated \ call.seen = {}
       THEN call' = IF call.at = "active"
                    THEN [call EXCEPT
                             !.at = "results",
                             !.size = Cardinality(DOMAIN download_results),
                             !.seen = {}]
                    ELSE [call EXCEPT !.at = "answered",
                                      !.ret = [http |-> "200",
                                               status |-> "listed"]]
       ELSE \E k \in DOMAIN Iterated \ call.seen :
               call' = [call EXCEPT
                           !.seen = @ \cup {k},
                           !.out = Append(@, [id |-> k,
                                              status |-> ListedStatus(k)])]
    /\ ReqFrame

\* A request body of POST /download: the lines of urls and the value of
\* artist_download_type.
Requests ==
    [items : {<<>>, <<BlankUrl>>, <<AlbumUrl>>, <<ArtistUrl>>,
              <<AlbumUrl, ArtistUrl>>, <<ArtistNamedAlbumUrl>>},
     dtype : {"absent", "", "albums"}]

\* Lines 611-625 without the test for artist URLs.
RejectsOnlyEmpty(req) == UrlList(FALSE, req.items) = <<>>

\* Lines 611-625: `if not urls`, and `'artist' in url` for some line while
\* artist_download_type is missing or empty.
Rejects(req) ==
    \/ UrlList(FALSE, req.items) = <<>>
    \/ /\ \E i \in 1..Len(UrlList(FALSE, req.items)) :
             HasArtistWord(UrlList(FALSE, req.items)[i])
       /\ req.dtype \in {"absent", ""}

\* Lines 604-704: POST /download, answered 400 or started as Submit starts it.
Download(req, id, opt) ==
    /\ call = NoCall
    /\ IF Rejects(req)
       THEN /\ call' = [op |-> "download", req |-> req,
                        ret |-> [http |-> "400", status |-> "error"],
                        download_id |-> "none"]
            /\ UNCHANGED <<pool, download_progress, options, pc>>
       ELSE /\ id \in pool
            /\ pool' = pool \ {id}
            /\ download_progress' = Put(download_progress, id, InitialProgress)
            /\ options' = [options EXCEPT ![id] = opt]
            /\ pc' = [pc EXCEPT ![id] = "start"]
            /\ call' = [op |-> "download", req |-> req,
                        ret |-> [http |-> "200", status |-> "started"],
                        download_id |-> id]
    /\ UNCHANGED <<maxLines, freeText, active_downloads, download_results, cmd,
                   proc, returncode, emitted, pipe, line, output_lines, aliased,
                   start_time, exc, hist, now>>

\* The answer is sent; the thread serves the next request.
ReqDone ==
    /\ Answered
    /\ call' = NoCall
    /\ ReqFrame

\* A step of a status or list request.
StatusOrList ==
    \/ \E id \in Ids : StatusBegin(id)
    \/ StatusElif
    \/ StatusRead
    \/ ListBegin
    \/ ListNext

NextReq ==
    \/ \E req \in Requests, id \in Ids, opt \in OptionSets : Download(req, id, opt)
    \/ StatusOrList
    \/ ReqDone
    \/ \E j \in Ids : Task(j)
    \/ \E j \in Ids : \E l \in NextLines(j) : ProcWrite(j, l)
    \/ \E j \in Ids : ProcClose(j)
    \/ \E j \in Ids, code \in ExitCodes : ProcExit(j, code)
    \/ Tick

SpecReq == InitReq /\ [][NextReq]_vars

\* ------------------------------------------------------------------ claims

InActive(j) == j \in DOMAIN active_downloads

InResults(j) == j \in DOMAIN download_results

HasResult(j, st) == InResults(j) /\ download_results[j].status = st

\* C1: no job id is in the running-jobs map and in the results map at once.
C1_AtMostOneMap == \A j \in Ids : ~(InActive(j) /\ InResults(j))

\* C2: once download() has returned an id, get_status for that id never
\* answers "not found".
C2_SubmittedIdIsFound ==
    \A j \in Ids : pc[j] # "none" => get_status(j) # "Download ID not found"

InLoop(j) == pc[j] \in {"read", "append", "classify", "trim"}

ExitedByItself(j) == proc[j] = "exited" /\ returncode[j] \in ExitCodes

\* C3: a job in its read loop whose process does not exit and whose elapsed
\* time exceeds 600 seconds eventually has a result of status timeout (unless
\* the process exits by itself after all, or the task raises).
C3_TimeoutIsRecorded ==
    \A j \in Ids :
        (InLoop(j) /\ TimedOut(j))
            ~> (HasResult(j, "timeout") \/ ExitedByItself(j) \/ exc[j] # "")

\* The task has returned from one of its three ends (lines 524, 556, 568).
Returned(j) == pc[j] = "done"

\* C4: a task that has returned has left its id out of the running-jobs map
\* and in the results map, and no step changes a result once it is recorded.
C4_ResultWrittenOnce ==
    /\ [](\A j \in Ids : Returned(j) => ~InActive(j) /\ InResults(j))
    /\ [][\A j \in Ids :
             InResults(j) =>
                /\ j \in DOMAIN download_results'
                /\ download_results'[j] = download_results[j]]_vars

\* C5: no step puts an id that is in the results map into the running-jobs
\* map: for a recorded id, membership of the running-jobs map is only lost.
C5_FinishedNeverRunsAgain ==
    [][\A j \in Ids :
          InResults(j) /\ j \in DOMAIN active_downloads' => InActive(j)]_vars

C5_Witness ==
    \E j \in Ids : pc[j] = "done" /\ InResults(j) /\ ~InActive(j)

\* C6: the output_lines of every progress record has at most 100 entries in
\* every state.
C6_AtMostKeepLines ==
    \A j \in DOMAIN download_progress :
        Len(download_progress[j].output_lines) <= KeepLines

StripAll(ls) == [i \in 1..Len(ls) |-> Strip(ls[i])]

\* The task is between two lines: not between lines 528 and 537.
BetweenLines(j) == pc[j] \notin {"none", "classify", "trim"}

NormallyFinished(j) == InResults(j) /\ download_results[j].status \in {"completed", "failed"}

\* C7 as stated: between two lines the progress record holds the last
\* min(n, 100) lines the process wrote, as written, and the stdout of a normal
\* result is those lines joined.
C7_KeepsLinesAsWritten ==
    \A j \in Ids :
        /\ BetweenLines(j) =>
              download_progress[j].output_lines = LastN(hist[j], KeepLines)
        /\ NormallyFinished(j) =>
              download_results[j].stdout = JoinLines(LastN(hist[j], KeepLines))

\* C7 amended: between two lines the progress record holds the last
\* min(n, 100) processed lines, each stripped of its leading and trailing
\* whitespace and line end, in the order written, and the stdout of a normal
\* result is those stripped lines joined by line breaks.
C7_KeepsStrippedLines ==
    \A j \in Ids :
        /\ BetweenLines(j) =>
              download_progress[j].output_lines =
                  LastN(StripAll(hist[j]), KeepLines)
        /\ NormallyFinished(j) =>
              download_results[j].stdout =
                  JoinLines(LastN(StripAll(hist[j]), KeepLines))

C7_Witness ==
    \E j \in Ids :
        /\ Len(hist[j]) > KeepLines
        /\ NormallyFinished(j)
        /\ Len(download_results[j].stdout) = 2 * KeepLines - 1
        /\ \E i \in 1..Len(hist[j]) : hist[j][i].lead # ""

\* C8: completed_tracks of a progress record never decreases in a step.
C8_CompletedTracksMonotone ==
    [][\A j \in DOMAIN download_progress :
          /\ j \in DOMAIN download_progress'
          /\ download_progress'[j].completed_tracks
                >= download_progress[j].completed_tracks]_vars

C8_Witness ==
    \E j \in DOMAIN download_progress :
        /\ download_progress[j].completed_tracks = 1
        /\ download_progress[j].status = "error"
        /\ Len(hist[j]) = 2
        /\ Has(hist[j][1], "Downloaded")
        /\ Has(hist[j][2], "Error")
        /\ pc[j] = "trim"

\* C9: the result recorded after the process exited by itself has status
\* completed exactly when the exit code is 0 and failed otherwise, and its
\* returncode is the exit code.
C9_StatusFromExitCode ==
    \A j \in Ids :
        /\ pc[j] \in {"finish_del", "finish_progress"} => NormallyFinished(j)
        /\ NormallyFinished(j) =>
              /\ returncode[j] \in ExitCodes
              /\ download_results[j].returncode = returncode[j]
              /\ download_results[j].status = "completed" <=> returncode[j] = 0
              /\ download_results[j].status = "failed" <=> returncode[j] # 0

C9_Witness ==
    \E j \in Ids :
        /\ HasResult(j, "failed")
        /\ download_results[j].returncode = 1
        /\ returncode[j] = 1

\* C10: a task in which an exception was raised ends with an error result that
\* carries the message and with its id out of the running-jobs map, and the
\* exception does not leave the task.
C10_ExceptionsBecomeErrorResults ==
    \A j \in Ids :
        /\ pc[j] # "raised"
        /\ (exc[j] # "" /\ pc[j] = "done") =>
              /\ HasResult(j, "error")
              /\ download_results[j].error = exc[j]
              /\ ~InActive(j)

\* C11: for an id with a recorded result, get_status answers with the
\* finished variant, whose details carry the recorded status.
C11_FinishedIsReported ==
    \A j \in Ids :
        InResults(j) =>
            /\ status_response(j).status = "completed"
            /\ status_response(j).details.status = download_results[j].status

\* The entries of the list of GET /downloads that name id j.
Listed(j) == SelectSeq(list_downloads, LAMBDA e : e.id = j)

\* C12: the list of GET /downloads names every id of the two maps exactly
\* once, a running job as running and a finished job with its recorded status.
C12_ListedExactlyOnce ==
    \A j \in Ids :
        /\ (InActive(j) \/ InResults(j)) => Len(Listed(j)) = 1
        /\ InActive(j) /\ Listed(j) # <<>> => Listed(j)[1].status = "running"
        /\ InResults(j) /\ ~InActive(j) /\ Listed(j) # <<>> =>
              Listed(j)[1].status = download_results[j].status

\* -------------------------------------------- claims about the URL classifier

Parsed == call.op = "parse_apple_music_url"

\* The last piece of a URL of the usual layout
\* https://music.apple.com/<storefront>/<word>/<name>/<last piece>.
UsualLayout(u, word) ==
    /\ u.isstr
    /\ Len(u.segs) = 7
    /\ SubSeq(u.segs, 1, 3) = Site
    /\ u.segs[4] # <<>>
    /\ u.segs[5] = <<word>>
    /\ u.segs[6] # <<>>

LastPiece(u) == u.segs[Len(u.segs)]

AlbumShaped(u) ==
    UsualLayout(u, "album") /\ Len(LastPiece(u)) = 1 /\ IsDigits(LastPiece(u)[1])

SongShaped(u) ==
    /\ UsualLayout(u, "album")
    /\ Len(LastPiece(u)) = 4
    /\ IsDigits(LastPiece(u)[1])
    /\ SubSeq(LastPiece(u), 2, 3) = <<"?", "i=">>
    /\ IsDigits(LastPiece(u)[4])

PlaylistShaped(u) ==
    /\ UsualLayout(u, "playlist")
    /\ Len(LastPiece(u)) >= 2
    /\ LastPiece(u)[1] = "pl."
    /\ LastPiece(u)[2] # "?"

ArtistShaped(u) ==
    UsualLayout(u, "artist") /\ Len(LastPiece(u)) = 1 /\ IsDigits(LastPiece(u)[1])

\* C15: for a URL of a recognized shape parse_apple_music_url returns the
\* documented kind and id: album with the album id, playlist with the id after
\* 'pl.', song for an album path followed by ?i=<song id>, artist with the
\* artist id.
C15_ShapeGivesKindAndId ==
    Parsed =>
        /\ AlbumShaped(call.url) =>
              call.ret.type = "album" /\ call.ret.id = LastPiece(call.url)[1]
        /\ PlaylistShaped(call.url) =>
              call.ret.type = "playlist" /\ call.ret.id = LastPiece(call.url)[2]
        /\ SongShaped(call.url) => call.ret.type = "song"
        /\ ArtistShaped(call.url) =>
              call.ret.type = "artist" /\ call.ret.id = LastPiece(call.url)[1]

\* C16: for a text that matches none of the four patterns the classifier
\* returns kind 'unknown' with id 'unknown', and for a value whose matching
\* raises it returns kind 'error'.
C16_UnknownOrError ==
    Parsed =>
        /\ (call.url.isstr
            /\ \A i \in 1..Len(PatternKinds) :
                  ~Search(call.url.segs, PatternKinds[i]).found)
                => call.ret.type = "unknown" /\ call.ret.id = "unknown"
        /\ ~call.url.isstr => call.ret.type = "error"

C16_Witness ==
    Parsed /\ call.url = VideoUrl /\ call.ret.type = "unknown"

\* ------------------------------------------- claims about the metadata fetcher

Fetched == call.op = "get_metadata_from_urls"

\* The URLs of the call's input.
InputUrls == UrlList(call.in.aslist, call.in.items)

\* C13: get_metadata_from_urls returns one record per input URL, in the order
\* of the input and with duplicates kept, whatever the classifier, the API
\* client and the requests do (cookies_path being absent or a path).
C13_OneRecordPerUrl ==
    Fetched /\ call.in.cookies # "notapath" =>
        /\ Len(call.ret) = Len(InputUrls)
        /\ \A i \in 1..Len(InputUrls) : call.ret[i].url = InputUrls[i]

C13_Witness ==
    /\ Fetched
    /\ call.in.cookies = "valid"
    /\ InputUrls = <<AlbumUrl, AlbumUrl>>
    /\ call.in.resps = <<Raises, Data(1)>>
    /\ Len(call.ret) = 2

\* The request for the i-th URL is made and raises.
FetchFails(i) ==
    /\ call.in.cookies = "valid"
    /\ parse_apple_music_url(InputUrls[i]).type \in {"album", "playlist"}
    /\ call.in.resps[i] = Raises

\* What the same call returns when the request for the i-th URL succeeds.
WithoutFailure(i) ==
    get_metadata_from_urls([call.in EXCEPT !.resps[i] = Data(1)])

ExactlyOneFails(i) ==
    /\ i \in 1..Len(InputUrls)
    /\ FetchFails(i)
    /\ \A k \in 1..Len(InputUrls) : FetchFails(k) => k = i

\* C14 as claimed: when exactly one URL's fetch fails, its record has kind
\* 'error' and the other records are those of the run without the failure.
C14_FailingOneIsError ==
    Fetched =>
        \A i \in 1..Len(call.in.resps) :
            ExactlyOneFails(i) =>
                /\ Len(call.ret) = Len(InputUrls)
                /\ call.ret[i].type = "error"
                /\ \A k \in 1..Len(InputUrls) :
                      k # i => call.ret[k] = WithoutFailure(i)[k]

\* C14: when exactly one URL's fetch fails, its record is the record of the
\* classifier alone, of the URL's own kind, and the other records are those of
\* the run without the failure.
C14_FailingOneIsClassifierOnly ==
    Fetched =>
        \A i \in 1..Len(call.in.resps) :
            ExactlyOneFails(i) =>
                /\ Len(call.ret) = Len(InputUrls)
                /\ call.ret[i] = parse_apple_music_url(InputUrls[i])
                /\ call.ret[i].type \in {"album", "playlist"}
                /\ \A k \in 1..Len(InputUrls) :
                      k # i => call.ret[k] = WithoutFailure(i)[k]

C14_Witness ==
    /\ Fetched
    /\ InputUrls = <<AlbumUrl, PlaylistUrl>>
    /\ ExactlyOneFails(1)
    /\ call.in.resps[2] = Data(1)
    /\ call.ret[1].type = "album"
    /\ call.ret[2].type = "playlist"
    /\ call.ret[2].actual_tracks = 1

PreviewBuilt ==
    /\ call.op = "get_real_metadata_with_gamdl"
    /\ call.kind \in {"album", "playlist"}
    /\ call.resp.outcome = "data"

\* C18: the preview of an album or playlist with n tracks lists the first
\* min(n, 15) tracks in their order, and has_more_tracks is true exactly when
\* n > 15.
C18_FirstFifteenTracks ==
    PreviewBuilt =>
        LET n == Len(call.resp.tracks)
        IN /\ Len(call.ret.tracks) = IF n < 15 THEN n ELSE 15
           /\ \A i \in 1..Len(call.ret.tracks) :
                 call.ret.tracks[i].name = call.resp.tracks[i].name
           /\ call.ret.has_more_tracks = (n > 15)

C18_Witness ==
    /\ PreviewBuilt
    /\ Len(call.resp.tracks) = 16
    /\ Len(call.ret.tracks) = 15
    /\ call.ret.has_more_tracks

\* ------------------------------------------------ claims about the command

Built == call.op = "build_command"

InCommand(arg) == \E i \in 1..Len(call.ret) : call.ret[i] = Str(arg)

PairInCommand(flag, value) ==
    \E i \in 1..(Len(call.ret) - 1) :
        call.ret[i] = Str(flag) /\ call.ret[i + 1] = value

BooleanFlags ==
    { <<"save_cover", "--save-cover">>,
      <<"save_playlist", "--save-playlist">>,
      <<"overwrite", "--overwrite">>,
      <<"no_synced_lyrics", "--no-synced-lyrics">>,
      <<"synced_lyrics_only", "--synced-lyrics-only">>,
      <<"disable_music_video_skip", "--disable-music-video-skip">> }

StringFlags ==
    { <<"language", "-l">>,
      <<"cover_format", "--cover-format">>,
      <<"codec_song", "--codec-song">>,
      <<"quality_post", "--quality-post">>,
      <<"log_level", "--log-level">> }

NonEmpty(v) == v.type = "str" /\ v.val # ""

\* C17: the command line holds each boolean flag exactly when its option is
\* true, and each string option's flag followed by its value exactly when the
\* value is not empty (the flag is missing otherwise).
C17_FlagsFollowOptions ==
    Built =>
        /\ \A f \in BooleanFlags :
              InCommand(f[2]) <=> call.options[f[1]] = Bool(TRUE)
        /\ \A f \in StringFlags :
              /\ PairInCommand(f[2], call.options[f[1]])
                    <=> NonEmpty(call.options[f[1]])
              /\ InCommand(f[2]) <=> NonEmpty(call.options[f[1]])

C17_Witness ==
    /\ Built
    /\ call.options.save_cover = Bool(TRUE)
    /\ call.options.overwrite = Bool(FALSE)
    /\ call.options.language = Str("en-US")
    /\ call.options.log_level = Str("")
    /\ InCommand("--save-cover")
    /\ ~InCommand("--overwrite")
    /\ PairInCommand("-l", Str("en-US"))
    /\ ~InCommand("--log-level")

\* ---------------------------------------- claims about the URL expansion

Expanded == call.op = "expand_urls"

\* C19: every input URL adds at least one URL to the argument list, in the
\* order of the input: a URL that is not an artist URL adds itself, an artist
\* URL adds its expanded URLs or, when there are none, itself.
C19_EveryUrlContributes ==
    Expanded =>
        /\ call.ret = Flatten(call.parts)
        /\ \A i \in 1..Len(call.urls) :
              /\ Len(call.parts[i]) >= 1
              /\ parse_apple_music_url(call.urls[i]).type # "artist"
                    => call.parts[i] = <<call.urls[i]>>

\* --------------------------------------- claims about the line classifier

Classified == call.op = "update_progress_from_line"

\* The fields of the record the call leaves as they were.
Kept(fields) == \A f \in fields : call.ret[f] = call.before[f]

\* The effect the claim gives each rule, on the line and record of the call.
RuleEffects(r1, r2, r3, r4, r5) ==
    /\ r1 =>
          /\ call.ret.current_track = call.line.body
          /\ call.ret.status = "downloading"
          /\ Kept({"total_tracks", "completed_tracks"})
    /\ ~r1 /\ r2 =>
          /\ call.ret.completed_tracks = call.before.completed_tracks + 1
          /\ Kept({"total_tracks", "current_track"})
    /\ ~r1 /\ ~r2 /\ r3 =>
          /\ call.ret.status = "error"
          /\ call.ret.current_track = <<"Error: ">> \o call.line.body
          /\ Kept({"total_tracks", "completed_tracks"})
    /\ ~r1 /\ ~r2 /\ ~r3 /\ r4 =>
          /\ Numbers(call.line) # <<>> =>
                call.ret.total_tracks = IntOf(Numbers(call.line)[1])
          /\ Kept({"completed_tracks", "current_track", "status"})
    /\ ~r1 /\ ~r2 /\ ~r3 /\ ~r4 /\ r5 =>
          /\ call.ret.status = "processing"
          /\ Kept({"total_tracks", "completed_tracks"})
    /\ ~r1 /\ ~r2 /\ ~r3 /\ ~r4 /\ ~r5 =>
          Kept({"total_tracks", "completed_tracks", "current_track", "status"})

\* C20 as claimed: one rule per line, the first in the order of the claim whose
\* keywords the line mentions, in any case.
C20_FirstRuleAnyCase ==
    Classified =>
        RuleEffects(
            HasLower(call.line, "downloading") /\ HasLower(call.line, "track"),
            HasLower(call.line, "downloaded") \/ HasLower(call.line, "finished"),
            HasLower(call.line, "error") \/ HasLower(call.line, "failed"),
            HasTracksFound(call.line),
            HasLower(call.line, "processing"))

\* C20: one rule per line, the first in the order of the claim whose keywords
\* the line holds, the keywords spelled 'Downloading', 'Downloaded',
\* 'Finished', 'Error', 'Failed', 'Processing' in exactly this case and
\* 'track', 'tracks found' in any case.
C20_FirstRuleExactCase ==
    Classified =>
        RuleEffects(
            Has(call.line, "Downloading") /\ HasLower(call.line, "track"),
            Has(call.line, "Downloaded") \/ Has(call.line, "Finished"),
            Has(call.line, "Error") \/ Has(call.line, "Failed"),
            HasTracksFound(call.line),
            Has(call.line, "Processing"))

C20_Witness ==
    /\ Classified
    /\ call.line.body = <<"Finished", "Failed">>
    /\ call.before = MidProgress
    /\ call.ret.completed_tracks = 2
    /\ call.ret.status = "downloading"

\* ------------------------------------------- claims about jobs side by side

\* The entry of job b in a map, if it has one.
Entry(m, b) == IF b \in DOMAIN m THEN <<m[b]>> ELSE <<>>

\* The entries of job b in the three maps.
EntriesOf(b) ==
    <<Entry(active_downloads, b), Entry(download_results, b),
      Entry(download_progress, b)>>

\* C21: a step of the background task of job a leaves the entries of every
\* other job b in active_downloads, download_results and download_progress
\* as they are.
C21_TaskKeepsOtherJobs ==
    [][\A a \in Ids :
          Task(a) => \A b \in Ids \ {a} : UNCHANGED EntriesOf(b)]_vars

\* Both jobs are running and the first has had a line classified.
C21_Witness ==
    /\ InActive("id1")
    /\ InActive("id2")
    /\ download_progress["id1"].status = "downloading"
    /\ download_progress["id2"].status = "running"

\* ------------------------------------------------ claims about the timeout

\* The task of job j is in the timeout branch (lines 512-524).
InTimeoutBranch(j) ==
    pc[j] \in {"terminate", "timeout_result", "timeout_del", "timeout_progress"}

\* C23: a job has a result of status timeout only when the check of line 511
\* has seen more than 600 seconds since the start of the process, and only
\* after the process was terminated and waited for.
C23_TimeoutOnlyAfterLimit ==
    \A j \in Ids :
        /\ (InTimeoutBranch(j) \/ HasResult(j, "timeout"))
              => now - start_time[j] > 600
        /\ HasResult(j, "timeout") => proc[j] = "exited"
        /\ HasResult(j, "timeout") =>
              pc[j] \in {"timeout_del", "timeout_progress", "done"}

C23_Witness ==
    \E j \in Ids :
        /\ HasResult(j, "timeout")
        /\ returncode[j] = SIGTERM
        /\ now - start_time[j] = 1200

\* ------------------------------------ claims about the results and progress

\* C25: an id that has an entry in download_results or in download_progress
\* has one in every later state.
C25_NeverEvicted ==
    [][\A j \in Ids :
          /\ j \in DOMAIN download_results => j \in DOMAIN download_results'
          /\ j \in DOMAIN download_progress => j \in DOMAIN download_progress']_vars

\* Both jobs have ended and both still have their result and progress.
C25_Witness ==
    /\ \A j \in Ids : Returned(j) /\ InResults(j) /\ j \in DOMAIN download_progress
    /\ HasResult("id1", "completed")
    /\ HasResult("id2", "timeout")

\* C26: after a job has ended, the status of its progress record agrees with
\* its result: timeout for timeout, error for error, completed only for
\* completed.
C26_ProgressAgreesWithResult ==
    \A j \in Ids :
        Returned(j) /\ InResults(j) /\ j \in DOMAIN download_progress =>
            /\ HasResult(j, "timeout") => download_progress[j].status = "timeout"
            /\ HasResult(j, "error") => download_progress[j].status = "error"
            /\ download_progress[j].status = "completed"
                  => HasResult(j, "completed")

\* ------------------------------------------------ claims about the requests

\* C22: no step of a status or list request changes active_downloads,
\* download_results or download_progress, and an id leaves active_downloads
\* only in a step of its own task: the del of line 521, 554 or 566.
C22_OnlyTheTaskRemoves ==
    [][/\ StatusOrList =>
            UNCHANGED <<active_downloads, download_results, download_progress>>
       /\ \A j \in Ids :
             (j \in DOMAIN active_downloads /\ j \notin DOMAIN active_downloads')
                => (TaskTimeoutDel(j) \/ TaskFinishDel(j) \/ TaskExceptDel(j))]_vars

\* A status request was answered 'running' and the job ended afterwards.
C22_Witness ==
    /\ call.op = "get_status"
    /\ call.id = "id1"
    /\ call.ret.status = "running"
    /\ ~InActive("id1")
    /\ HasResult("id1", "completed")

\* C24: every status or list request is answered with a status or a listing
\* (or 'not found'), never with the error of a map that changed under it.
C24_RequestsNeverFail ==
    (call.op \in {"get_status", "list_downloads"} /\ Answered)
        => call.ret.http \in {"200", "404"}

\* The request body names no URL, or an artist URL and no artist_download_type.
NoUrlOrArtistWithoutType(req) ==
    \/ \A i \in 1..Len(req.items) : IsBlank(req.items[i])
    \/ /\ \E i \in 1..Len(req.items) :
             parse_apple_music_url(req.items[i]).type = "artist"
       /\ req.dtype \in {"absent", ""}

\* C27: a POST /download with no URLs, or with an artist URL and no
\* artist_download_type, is answered with an error and no job id, starts no
\* task and leaves the three maps as they are.
C27_RejectedSubmitCreatesNothing ==
    [][(call.op = "none" /\ call'.op = "download"
        /\ NoUrlOrArtistWithoutType(call'.req))
          => /\ call'.ret.http = "400"
             /\ call'.download_id = "none"
             /\ UNCHANGED <<active_downloads, download_results,
                            download_progress, pc, pool>>]_vars

\* An artist URL without artist_download_type was rejected before any job.
C27_Witness ==
    /\ call.op = "download"
    /\ call.req = [items |-> <<AlbumUrl, ArtistUrl>>, dtype |-> "absent"]
    /\ call.ret.http = "400"
    /\ pc["id1"] = "none"
    /\ download_progress = EmptyMap

====
